---- MODULE Spec2Model ----
(***************************************************************************)
(* A model of keeper.py: a command-line time tracker that keeps one        *)
(* Booking per calendar day in a JSON file.                                *)
(*                                                                         *)
(* Representation.                                                         *)
(*   - A datetime is a whole number of seconds since 00:00:00 of day 0;    *)
(*     the wall clock has a resolution of one second.  A calendar date is  *)
(*     the day index, and the day-key "YYYY-MM-DD" that strftime makes of  *)
(*     a datetime is the index of its day.                                 *)
(*   - A float number of hours (pause, productive_time, the argument and   *)
(*     result of quarter_round) is held as the whole number of seconds it  *)
(*     stands for (0.25 h = 900, 0.5 h = 1800): every such value the       *)
(*     program computes from whole seconds is exact in binary floating     *)
(*     point, so no rounding is lost.                                      *)
(*   - Python's None is the empty sequence, a value v that is set is <<v>>.*)
(*   - One invocation of the program is a process p: Start(p) is           *)
(*     Keeper.__init__ up to the call of __process_args, and the stages of *)
(*     __process_args follow in the order of the code.  The --category     *)
(*     stage only prints and is left out.                                  *)
(***************************************************************************)
EXTENDS Integers, Sequences, FiniteSets, TLC

VARIABLES
    clock,                 \* the wall clock (datetime.now())
    file,                  \* the store document keeper.json: key -> JSON booking
    default_pause_length,  \* the setting of keeper_settings.json
    runs,                  \* invocations begun so far
    pc,                    \* per process: the stage of __process_args it is at
    args,                  \* per process: the parsed command line
    data,                  \* per process: self.__data
    day_to_work_on,        \* per process: self.__day_to_work_on
    key_list,              \* per process: key_list of generate_day_keys
    out,                   \* per process: the table last printed
    loaded,                \* history: the store the process loaded
    last,                  \* history: the last __check the process made
    saver,                 \* history: the process that wrote the file last
    qr_x, qr_1, qr_2       \* quarter_round applied to a duration, once and twice

vars == <<clock, file, default_pause_length, runs, pc, args, data, day_to_work_on,
          key_list, out, loaded, last, saver, qr_x, qr_1, qr_2>>

----------------------------------------------------------------------------
(* Bounds of the model *)

MaxRuns == 2
MaxSeconds == 86399

Procs == {1, 2}

----------------------------------------------------------------------------
(* Time *)

SecondsPerDay == 24 * 60 * 60

HM(h, m) == (h * 60 + m) * 60

None == <<>>

Some(v) == <<v>>

OptOf(S) == {None} \cup {Some(v) : v \in S}

\* datetime.strftime("%Y-%m-%d")
DayKey(ts) == ts \div SecondsPerDay

\* datetime.fromisoformat("YYYY-MM-DD"): midnight of that day
FromIsoDate(d) == d * SecondsPerDay

\* datetime.fromisoformat("YYYY-MM-DD HH:MM")
FromIsoDateTime(d, t) == d * SecondsPerDay + t

\* timedelta.seconds of a difference of d seconds: Python normalises a
\* timedelta to days (possibly negative) and 0 <= seconds < 86400
TimedeltaSeconds(d) == d % SecondsPerDay

\* strftime("%a")
Weekday(ts) == DayKey(ts) % 7

\* strftime("%H:%M"): <<hour, minute>>
HourMinute(ts) == <<(ts % SecondsPerDay) \div 3600, ((ts % SecondsPerDay) \div 60) % 60>>

----------------------------------------------------------------------------
(* The data model *)

\* 0.25 hours, the base of quarter_round, in seconds
Base == 900

\* Booking.pause = 0.5 hours, in seconds
BookingPause == 1800

\* Booking(): the field defaults
NewBooking ==
    [checkin_timestamp |-> None, checkout_timestamp |-> None, pause |-> BookingPause,
     productive_time |-> 0, category |-> "MOBILE", description |-> None]

\* Python's round(): the nearest integer to x / b, a tie going to the even one
RoundHalfEven(x, b) ==
    LET q == x \div b
        r == x % b
    IN  IF 2 * r < b THEN q
        ELSE IF 2 * r > b THEN q + 1
        ELSE IF q % 2 = 0 THEN q ELSE q + 1

\* The same with the tie dropped: int(x / b) in place of round(x / b)
quarter_round_floor(x) == Base * (x \div Base)

\* Keeper.quarter_round(x, base = 0.25)
quarter_round(x) == Base * RoundHalfEven(x, Base)

----------------------------------------------------------------------------
(* The store document *)

\* marshmallow's DateTime field: an ISO-8601 string, here <<date, time of day>>
IsoFormat(ts) == <<ts \div SecondsPerDay, ts % SecondsPerDay>>

FromIsoFormat(s) == s[1] * SecondsPerDay + s[2]

DumpTimestamp(t) == IF t = None THEN None ELSE Some(IsoFormat(t[1]))

LoadTimestamp(j) == IF j = None THEN None ELSE Some(FromIsoFormat(j[1]))

DumpBooking(b) ==
    [b EXCEPT !.checkin_timestamp = DumpTimestamp(b.checkin_timestamp),
              !.checkout_timestamp = DumpTimestamp(b.checkout_timestamp)]

LoadBooking(j) ==
    [j EXCEPT !.checkin_timestamp = LoadTimestamp(j.checkin_timestamp),
              !.checkout_timestamp = LoadTimestamp(j.checkout_timestamp)]

\* KeeperFileSchema().dump(KeeperFile(bookings = d)): the whole mapping
Dump(d) == [k \in DOMAIN d |-> DumpBooking(d[k])]

\* KeeperFileSchema().load(json).bookings
Load(f) == [k \in DOMAIN f |-> LoadBooking(f[k])]

\* A save that keeps the entries of the file it does not hold itself
SaveMerged(f, d) == Dump(d) @@ f

\* Keeper.__save_data: the file is rewritten in full from self.__data
SaveData(f, d) == Dump(d)

EmptyStore == [k \in {} |-> NewBooking]

----------------------------------------------------------------------------
(* Keeper.__check *)

\* A resolution that forgets --date
DayToWorkOnNow(now, date) == now

\* __init__ line 47 and __process_args lines 71-72: self.__day_to_work_on
DayToWorkOn(now, date) == IF date # None THEN FromIsoDate(date[1]) ELSE now

\* booking_date, lines 105-108: an explicit HH:MM is put on the day to work on
BookingDate(dtw, booking_time) ==
    IF booking_time # None
    THEN FromIsoDateTime(DayKey(dtw), booking_time[1])
    ELSE dtw

\* lines 110-112: the Booking at key, or a new one
ExistingBooking(d, key) == IF key \in DOMAIN d THEN d[key] ELSE NewBooking

BothSet(b) == b.checkin_timestamp # None /\ b.checkout_timestamp # None

\* A computation that does not wait for both timestamps: a missing one counts
\* as no time worked
WithProductiveTimeEager(b, pause) ==
    [b EXCEPT !.productive_time =
        IF BothSet(b)
        THEN quarter_round(TimedeltaSeconds(b.checkout_timestamp[1] - b.checkin_timestamp[1]))
             - pause
        ELSE quarter_round(0) - pause]

\* lines 117-119: productive_time once both timestamps are there
WithProductiveTime(b, pause) ==
    IF BothSet(b)
    THEN [b EXCEPT !.productive_time =
            quarter_round(TimedeltaSeconds(b.checkout_timestamp[1] - b.checkin_timestamp[1]))
            - pause]
    ELSE b

\* An assignment in which a check-in opens the day anew
WithTimestampReset(b, checkin, booking_date) ==
    IF checkin
    THEN [b EXCEPT !.checkin_timestamp = Some(booking_date), !.checkout_timestamp = None]
    ELSE [b EXCEPT !.checkout_timestamp = Some(booking_date)]

\* lines 113-116: the timestamp is assigned whatever was there
WithTimestamp(b, checkin, booking_date) ==
    IF checkin
    THEN [b EXCEPT !.checkin_timestamp = Some(booking_date)]
    ELSE [b EXCEPT !.checkout_timestamp = Some(booking_date)]

\* lines 105-121: self.__data after __check(checkin, booking_time)
Checked(d, dtw, checkin, booking_time, pause) ==
    LET key == DayKey(dtw)
        b == WithProductiveTime(
                 WithTimestamp(ExistingBooking(d, key), checkin,
                               BookingDate(dtw, booking_time)),
                 pause)
    IN  (key :> b) @@ d

----------------------------------------------------------------------------
(* Keeper.print_table *)

\* lines 133-137: the value of the PROD TIME column
ProductiveTimeValue(day, now) ==
    IF day.productive_time # 0
    THEN day.productive_time
    ELSE quarter_round(TimedeltaSeconds(now - day.checkin_timestamp[1])) - day.pause

\* lines 136 and 138: None has no strftime and cannot be subtracted from a
\* datetime, so a Booking without checkin_timestamp raises
Raises(d, keys) ==
    \E i \in 1..Len(keys) :
        keys[i] \in DOMAIN d /\ d[keys[i]].checkin_timestamp = None

\* lines 130-140: one row of the table
Row(d, key, now) ==
    IF key \in DOMAIN d
    THEN LET day == d[key]
         IN  [kind |-> "booking",
              weekday |-> Weekday(day.checkin_timestamp[1]),
              date |-> key,
              in |-> HourMinute(day.checkin_timestamp[1]),
              out |-> IF day.checkout_timestamp # None
                      THEN Some(HourMinute(day.checkout_timestamp[1]))
                      ELSE None,
              prod |-> ProductiveTimeValue(day, now),
              pause |-> day.pause,
              category |-> day.category,
              description |-> day.description]
    ELSE [kind |-> "placeholder", weekday |-> Weekday(FromIsoDate(key)), date |-> key]

\* lines 126-142: the rows under the header, when nothing raises
Table(d, keys, now) == [i \in 1..Len(keys) |-> Row(d, keys[i], now)]

----------------------------------------------------------------------------
(* The command line and the stages of __process_args *)

\* --checkin_at values
TimesIn == {HM(9, 0), HM(17, 30)}

\* --checkout_at values
TimesOut == {HM(9, 30), HM(17, 30)}

\* --date values: day 0 is a day before the clock's first day
Dates == {0}

\* The moments the wall clock is read at while days are recorded: day 1 at
\* 09:00:00, 09:07:30 and 12:00:00
CheckClock ==
    {SecondsPerDay + HM(9, 0), SecondsPerDay + HM(9, 0) + 450, SecondsPerDay + HM(12, 0)}

\* The moments it is read at while reports are printed: the last second of
\* day 1, the first of day 2, and noon of day 2
ReportClock == {2 * SecondsPerDay - 1, 2 * SecondsPerDay, 2 * SecondsPerDay + HM(12, 0)}

FirstClock == SecondsPerDay + HM(9, 0)

\* default_pause_length of keeper_settings.json, in seconds: 0.5 h when the
\* settings file is created by the program
DefaultPauseLength == 1800

PauseSettings == {DefaultPauseLength, DefaultPauseLength \div 2}

NoArgs ==
    [date |-> None, checkin |-> FALSE, checkin_at |-> None, checkout |-> FALSE,
     checkout_at |-> None, today |-> FALSE, week |-> FALSE, month |-> FALSE]

\* The options that call __check
CheckOptions(a) ==
    {f \in {"checkin", "checkout"} : a[f]} \cup {f \in {"checkin_at", "checkout_at"} : a[f] # None}

\* Invocations that record and show the day: at most two checks each
CheckArgs ==
    {a \in [date : OptOf(Dates), checkin : BOOLEAN, checkin_at : OptOf(TimesIn),
            checkout : BOOLEAN, checkout_at : OptOf(TimesOut), today : BOOLEAN,
            week : {FALSE}, month : {FALSE}] :
        Cardinality(CheckOptions(a)) <= 2}

\* Invocations that only print a report
ReportArgs ==
    [date : {None}, checkin : {FALSE}, checkin_at : {None}, checkout : {FALSE},
     checkout_at : {None}, today : BOOLEAN, week : BOOLEAN, month : BOOLEAN]

\* Invocations that record one check on a given day
RaceArgs ==
    {a \in [date : {Some(0), Some(1)}, checkin : BOOLEAN, checkin_at : OptOf({HM(9, 0)}),
            checkout : BOOLEAN, checkout_at : OptOf({HM(17, 30)}), today : {FALSE},
            week : {FALSE}, month : {FALSE}] :
        Cardinality(CheckOptions(a)) = 1}

\* The order of the tests of __process_args, lines 73-93
Stages == <<"checkin", "checkin_at", "checkout", "checkout_at", "today", "week", "month">>

StageSet(a, i) ==
    CASE i = 1 -> a.checkin
      [] i = 2 -> a.checkin_at # None
      [] i = 3 -> a.checkout
      [] i = 4 -> a.checkout_at # None
      [] i = 5 -> a.today
      [] i = 6 -> a.week
      [] i = 7 -> a.month

StageIndex(s) == IF s = "start" THEN 0 ELSE CHOOSE i \in 1..Len(Stages) : Stages[i] = s

\* The next stage of __process_args whose option is set, "done" at its end
NextStage(a, s) ==
    LET later == {i \in (StageIndex(s) + 1)..Len(Stages) : StageSet(a, i)}
    IN  IF later = {} THEN "done"
        ELSE Stages[CHOOSE i \in later : \A j \in later : i <= j]

\* generate_day_keys(1), (7), (30) of lines 87, 90, 93
Days(s) == CASE s = "today" -> 1 [] s = "week" -> 7 [] s = "month" -> 30

ReportStages == {"today", "week", "month"}

NoCheck == [kind |-> "none", explicit |-> FALSE, key |-> 0, ts |-> 0, prior |-> None]

----------------------------------------------------------------------------
(* The state machine *)

\* No store document yet (__load_data then writes the empty one), no process
InitStore ==
    /\ clock = FirstClock
    /\ file = EmptyStore
    /\ default_pause_length \in PauseSettings
    /\ runs = 0
    /\ pc = [p \in Procs |-> "idle"]
    /\ args = [p \in Procs |-> NoArgs]
    /\ data = [p \in Procs |-> EmptyStore]
    /\ day_to_work_on = [p \in Procs |-> 0]
    /\ key_list = [p \in Procs |-> <<>>]
    /\ out = [p \in Procs |-> <<>>]
    /\ loaded = [p \in Procs |-> EmptyStore]
    /\ last = [p \in Procs |-> NoCheck]
    /\ saver = 0
    /\ qr_1 = None
    /\ qr_2 = None

Init == InitStore /\ qr_x = 0

\* Time passes
Tick(points) ==
    /\ \E c \in points : c > clock /\ clock' = c
    /\ UNCHANGED <<file, default_pause_length, runs, pc, args, data, day_to_work_on,
                   key_list, out, loaded, last, saver, qr_x, qr_1, qr_2>>

\* Keeper.__init__, lines 41-48, and the head of __process_args, lines 70-72:
\* a new process loads the store and resolves the day to work on
Start(p, a) ==
    /\ pc[p] \in {"idle", "done", "crashed"}
    /\ runs < MaxRuns
    /\ runs' = runs + 1
    /\ args' = [args EXCEPT ![p] = a]
    /\ data' = [data EXCEPT ![p] = Load(file)]
    /\ day_to_work_on' = [day_to_work_on EXCEPT ![p] = DayToWorkOn(clock, a.date)]
    /\ pc' = [pc EXCEPT ![p] = NextStage(a, "start")]
    /\ key_list' = [key_list EXCEPT ![p] = <<>>]
    /\ out' = [out EXCEPT ![p] = <<>>]
    /\ loaded' = [loaded EXCEPT ![p] = Load(file)]
    /\ last' = [last EXCEPT ![p] = NoCheck]
    /\ UNCHANGED <<clock, file, default_pause_length, saver, qr_x, qr_1, qr_2>>

\* Keeper.__check(checkin, booking_time), lines 104-123: the Booking is
\* updated, the store saved, and the day's row printed
Check(p, checkin, booking_time) ==
    LET d == Checked(data[p], day_to_work_on[p], checkin, booking_time,
                     default_pause_length)
        key == DayKey(day_to_work_on[p])
    IN  /\ data' = [data EXCEPT ![p] = d]
        /\ file' = SaveData(file, d)
        /\ saver' = p
        /\ last' = [last EXCEPT ![p] =
                      [kind |-> IF checkin THEN "checkin" ELSE "checkout",
                       explicit |-> booking_time # None,
                       key |-> key,
                       ts |-> BookingDate(day_to_work_on[p], booking_time),
                       prior |-> IF key \in DOMAIN data[p] THEN Some(data[p][key])
                                 ELSE None]]
        /\ IF Raises(d, <<key>>)
           THEN /\ pc' = [pc EXCEPT ![p] = "crashed"]
                /\ out' = out
           ELSE /\ pc' = [pc EXCEPT ![p] = NextStage(args[p], pc[p])]
                /\ out' = [out EXCEPT ![p] = Table(d, <<key>>, clock)]
        /\ UNCHANGED <<clock, default_pause_length, runs, args, day_to_work_on, key_list,
                       loaded, qr_x, qr_1, qr_2>>

\* lines 73-75: --checkin
CheckIn(p) == pc[p] = "checkin" /\ Check(p, TRUE, None)

\* lines 76-78: --checkin_at HH:MM
CheckInAt(p) == pc[p] = "checkin_at" /\ Check(p, TRUE, args[p].checkin_at)

\* lines 79-81: --checkout
CheckOut(p) == pc[p] = "checkout" /\ Check(p, FALSE, None)

\* lines 82-84: --checkout_at HH:MM
CheckOutAt(p) == pc[p] = "checkout_at" /\ Check(p, FALSE, args[p].checkout_at)

\* One iteration of the loop of generate_day_keys, lines 147-149: today is
\* read from the clock in every iteration
GenerateDayKey(p) ==
    /\ pc[p] \in ReportStages
    /\ Len(key_list[p]) < Days(pc[p])
    /\ key_list' = [key_list EXCEPT ![p] =
                      Append(@, DayKey(clock - Len(@) * SecondsPerDay))]
    /\ UNCHANGED <<clock, file, default_pause_length, runs, pc, args, data,
                   day_to_work_on, out, loaded, last, saver, qr_x, qr_1, qr_2>>

\* lines 85-93: print_table of the keys generate_day_keys returned
PrintTable(p) ==
    /\ pc[p] \in ReportStages
    /\ Len(key_list[p]) = Days(pc[p])
    /\ IF Raises(data[p], key_list[p])
       THEN /\ pc' = [pc EXCEPT ![p] = "crashed"]
            /\ out' = out
       ELSE /\ pc' = [pc EXCEPT ![p] = NextStage(args[p], pc[p])]
            /\ out' = [out EXCEPT ![p] = Table(data[p], key_list[p], clock)]
    /\ key_list' = [key_list EXCEPT ![p] = <<>>]
    /\ UNCHANGED <<clock, file, default_pause_length, runs, args, data, day_to_work_on,
                   loaded, last, saver, qr_x, qr_1, qr_2>>

\* Invocations one after the other, each run to its end before the next
Next ==
    \/ Tick(CheckClock)
    \/ \E a \in CheckArgs : Start(1, a)
    \/ CheckIn(1)
    \/ CheckInAt(1)
    \/ CheckOut(1)
    \/ CheckOutAt(1)
    \/ GenerateDayKey(1)
    \/ PrintTable(1)

Spec == Init /\ [][Next]_vars

\* Reports only, printed around midnight
NextReport ==
    \/ Tick(ReportClock)
    \/ \E a \in ReportArgs : Start(1, a)
    \/ GenerateDayKey(1)
    \/ PrintTable(1)

SpecReport == Init /\ [][NextReport]_vars

\* Two invocations at once on the same store document, one check each
NextRace ==
    \/ Tick(CheckClock)
    \/ \E p \in Procs : \E a \in RaceArgs : Start(p, a)
    \/ \E p \in Procs : CheckIn(p)
    \/ \E p \in Procs : CheckInAt(p)
    \/ \E p \in Procs : CheckOut(p)
    \/ \E p \in Procs : CheckOutAt(p)

SpecRace == Init /\ [][NextRace]_vars

\* quarter_round alone, on every duration timedelta.seconds can be
InitRound == InitStore /\ qr_x \in 0..MaxSeconds

ApplyQuarterRound ==
    /\ qr_1 = None
    /\ qr_1' = Some(quarter_round(qr_x))
    /\ UNCHANGED <<clock, file, default_pause_length, runs, pc, args, data, day_to_work_on,
                   key_list, out, loaded, last, saver, qr_x, qr_2>>

ApplyQuarterRoundAgain ==
    /\ qr_1 # None
    /\ qr_2 = None
    /\ qr_2' = Some(quarter_round(qr_1[1]))
    /\ UNCHANGED <<clock, file, default_pause_length, runs, pc, args, data, day_to_work_on,
                   key_list, out, loaded, last, saver, qr_x, qr_1>>

NextRound == ApplyQuarterRound \/ ApplyQuarterRoundAgain

SpecRound == InitRound /\ [][NextRound]_vars

----------------------------------------------------------------------------
(* Properties *)

CheckStages == {"checkin", "checkin_at", "checkout", "checkout_at"}

\* Process p takes a __check step
CheckStep(p) == pc[p] \in CheckStages /\ pc'[p] # pc[p]

\* Process p takes a __check step that records a check-in
CheckInStep(p) == pc[p] \in {"checkin", "checkin_at"} /\ pc'[p] # pc[p]

\* Process p prints a table: at the end of a __check or for a report
PrintStep(p) == pc[p] \in CheckStages \cup ReportStages /\ pc'[p] \notin {pc[p], "crashed"}

\* The Booking the last __check of p found at its key had exactly a check-in
AfterCheckInOnly(p) ==
    /\ last[p].prior # None
    /\ last[p].prior[1].checkin_timestamp # None
    /\ last[p].prior[1].checkout_timestamp = None

\* C1: from a store with no Booking at day-key K, a check-in and then a
\* check-out on K leave productive_time = quarter_round(hours from
\* checkin_timestamp to checkout_timestamp) - default_pause_length, and a
\* check-in alone leaves productive_time = 0.
C1_ProductiveTime ==
    \A p \in Procs :
        /\ (last[p].kind = "checkout" /\ AfterCheckInOnly(p))
           => data[p][last[p].key].productive_time =
                quarter_round(last[p].ts - last[p].prior[1].checkin_timestamp[1])
                - default_pause_length
        /\ (last[p].kind = "checkin" /\ last[p].prior = None)
           => data[p][last[p].key].productive_time = 0

\* What __check computes in every case: the hours are those of the difference
\* taken modulo one day, so C1's equation is met whenever the check-out is not
\* earlier than the check-in
ProductiveTimeModuloDay ==
    \A p \in Procs :
        (last[p].kind = "checkout" /\ AfterCheckInOnly(p))
        => LET d == last[p].ts - last[p].prior[1].checkin_timestamp[1]
           IN  /\ data[p][last[p].key].productive_time =
                    quarter_round(d % SecondsPerDay) - default_pause_length
               /\ d >= 0 => data[p][last[p].key].productive_time =
                              quarter_round(d) - default_pause_length

\* C2: a check-in on a day-key whose Booking has a checkin_timestamp replaces
\* it with the new value, leaves that Booking's checkout_timestamp, pause,
\* category and description as they were, and leaves every other day-key's
\* Booking as it was.
C2_CheckinOverwrite ==
    [][\A p \in Procs :
         LET key == DayKey(day_to_work_on[p])
             new == IF pc[p] = "checkin_at"
                    THEN key * SecondsPerDay + args[p].checkin_at[1]
                    ELSE day_to_work_on[p]
         IN  (/\ CheckInStep(p)
              /\ key \in DOMAIN data[p]
              /\ data[p][key].checkin_timestamp # None)
             => /\ DOMAIN data'[p] = DOMAIN data[p]
                /\ data'[p][key].checkin_timestamp = Some(new)
                /\ data'[p][key].checkout_timestamp = data[p][key].checkout_timestamp
                /\ data'[p][key].pause = data[p][key].pause
                /\ data'[p][key].category = data[p][key].category
                /\ data'[p][key].description = data[p][key].description
                /\ \A k \in DOMAIN data[p] \ {key} : data'[p][k] = data[p][k]]_vars

\* C2's case: a check-in has replaced another checkin_timestamp on a day that
\* was checked out already
C2_Witness ==
    \E p \in Procs :
        /\ last[p].kind = "checkin"
        /\ last[p].prior # None
        /\ last[p].prior[1].checkin_timestamp \notin {None, Some(last[p].ts)}
        /\ last[p].prior[1].checkout_timestamp # None
        /\ data[p][last[p].key].checkin_timestamp = Some(last[p].ts)
        /\ data[p][last[p].key].checkout_timestamp = last[p].prior[1].checkout_timestamp

\* C3: in the store document a Booking never has checkout_timestamp set while
\* checkin_timestamp is unset, and a Booking or timestamp that is there stays.
C3_States ==
    [][/\ \A k \in DOMAIN file' :
            file'[k].checkout_timestamp # None => file'[k].checkin_timestamp # None
       /\ \A k \in DOMAIN file :
            /\ k \in DOMAIN file'
            /\ file[k].checkin_timestamp # None => file'[k].checkin_timestamp # None
            /\ file[k].checkout_timestamp # None => file'[k].checkout_timestamp # None]_vars

\* The second half of C3 alone: what is set stays set
TimestampsStay ==
    [][\A k \in DOMAIN file :
            /\ k \in DOMAIN file'
            /\ file[k].checkin_timestamp # None => file'[k].checkin_timestamp # None
            /\ file[k].checkout_timestamp # None => file'[k].checkout_timestamp # None]_vars

\* C4: a Booking whose productive_time is not 0 has both timestamps, in the
\* store document and in every process's copy of it.
C4_ProductiveNeedsBoth ==
    /\ \A k \in DOMAIN file :
          file[k].productive_time # 0 => BothSet(file[k])
    /\ \A p \in Procs : \A k \in DOMAIN data[p] :
          data[p][k].productive_time # 0 => BothSet(data[p][k])

\* C4's case: a Booking with a productive_time is in the store document, next
\* to one that was only checked in
C4_Witness ==
    /\ \E k \in DOMAIN file : file[k].productive_time # 0
    /\ \E k \in DOMAIN file : ~BothSet(file[k])

\* C5: quarter_round(x) is a multiple of a quarter of an hour, at most 0.125
\* hours (450 seconds) from x, and quarter_round of it is itself.
C5_QuarterRound ==
    /\ qr_1 # None =>
          /\ qr_1[1] % Base = 0
          /\ qr_1[1] - qr_x <= Base \div 2
          /\ qr_x - qr_1[1] <= Base \div 2
    /\ qr_2 # None => qr_2 = qr_1

\* C5's case: a duration halfway between two quarters has been rounded twice
C5_Witness ==
    /\ qr_x % Base = Base \div 2
    /\ qr_1 # None
    /\ qr_2 # None

\* C6: the n keys generate_day_keys(n) returns are pairwise distinct and step
\* back one calendar day per position from the first.
C6_DayKeys ==
    \A p \in Procs :
        (pc[p] \in ReportStages /\ Len(key_list[p]) = Days(pc[p]))
        => /\ \A i \in 1..Len(key_list[p]) : key_list[p][i] = key_list[p][1] - (i - 1)
           /\ \A i, j \in 1..Len(key_list[p]) : i # j => key_list[p][i] # key_list[p][j]

\* The part of C6 that does not depend on the clock: generate_day_keys(n)
\* returns n keys, none after the day it returns on
DayKeysCount ==
    \A p \in Procs :
        pc[p] \in ReportStages
        => /\ Len(key_list[p]) <= Days(pc[p])
           /\ \A i \in 1..Len(key_list[p]) : key_list[p][i] <= DayKey(clock) - (i - 1)

C8_SavedAndPrinted ==
    [][\A p \in Procs :
         CheckStep(p)
         => /\ Load(file') = data'[p]
            /\ pc'[p] # "crashed"
            /\ Len(out'[p]) = 1
            /\ out'[p][1].date = DayKey(day_to_work_on[p])]_vars

\* The part of C8 before the row is printed: the store document is written
\* from the store in memory
SavedOnCheck == [][\A p \in Procs : CheckStep(p) => Load(file') = data'[p]]_vars

\* C9: a printed row shows the persisted productive_time when the Booking has
\* both timestamps, the live estimate only without a checkout_timestamp; and
\* printing a report changes no Booking, in memory or in the store document.
C9_Rendered ==
    [][\A p \in Procs :
         PrintStep(p)
         => /\ \A i \in 1..Len(out'[p]) :
                 out'[p][i].kind = "booking"
                 => LET b == data'[p][out'[p][i].date]
                    IN  IF b.checkout_timestamp # None
                        THEN out'[p][i].prod = b.productive_time
                        ELSE out'[p][i].prod =
                               quarter_round(TimedeltaSeconds(clock - b.checkin_timestamp[1]))
                               - b.pause
            /\ pc[p] \in ReportStages => data' = data /\ file' = file]_vars

\* What print_table does in every case: the persisted productive_time is shown
\* when it is not 0, and a report changes nothing
RenderedWhenNonZero ==
    [][\A p \in Procs :
         PrintStep(p)
         => /\ \A i \in 1..Len(out'[p]) :
                 (out'[p][i].kind = "booking" /\ data'[p][out'[p][i].date].productive_time # 0)
                 => out'[p][i].prod = data'[p][out'[p][i].date].productive_time
            /\ pc[p] \in ReportStages => data' = data /\ file' = file]_vars

\* C10: when two invocations have loaded the same store, each has recorded a
\* check on a day-key of its own that the store did not hold, and neither
\* failed, the store document is the later saver's store: its Booking is
\* there and the earlier saver's is not.
C10_LostUpdate ==
    \A p, q \in Procs :
        (/\ p # q
         /\ pc[p] = "done" /\ pc[q] = "done"
         /\ last[p].kind # "none" /\ last[q].kind # "none"
         /\ last[p].key # last[q].key
         /\ loaded[p] = loaded[q]
         /\ last[p].key \notin DOMAIN loaded[p]
         /\ last[q].key \notin DOMAIN loaded[q]
         /\ saver = p)
        => /\ Load(file) = data[p]
           /\ last[p].key \in DOMAIN file
           /\ last[q].key \notin DOMAIN file

\* C10's case: both loaded the empty store, both checked in without an error,
\* and one Booking is gone
C10_Witness ==
    \E p, q \in Procs :
        /\ p # q
        /\ pc[p] = "done" /\ pc[q] = "done"
        /\ last[p].kind = "checkin" /\ last[q].kind = "checkin"
        /\ last[p].key # last[q].key
        /\ loaded[p] = EmptyStore /\ loaded[q] = EmptyStore
        /\ saver = p
        /\ DOMAIN file = {last[p].key}
        /\ last[q].key \in DOMAIN data[q]

====
